---- MODULE Spec2Model ----
(***************************************************************************)
(* Model of src/vos/vm.py: a single-process virtual memory simulator with  *)
(* demand paging, FIFO replacement and dirty-page writeback.               *)
(*                                                                         *)
(* The machine state is the six mutable structures of VM / PhysicalMemory  *)
(* / PageTable.  Every call is one atomic action (the program is single-   *)
(* threaded), computed by operators that follow the code line by line and  *)
(* that also report which exception, if any, the call raised.              *)
(***************************************************************************)
EXTENDS Integers, Sequences, FiniteSets, TLC

\* ------------------------------------------------------------------------
\* Sizes.  The program uses 256 / 16 / 8 (vm.py:5-7); the model is checked
\* on a scaled-down geometry.
PAGE_SIZE == 2

VIRTUAL_PAGES == 4

PHYSICAL_FRAMES == 2

\* ------------------------------------------------------------------------
\* Values
None == -1                      \* Python's None in PTEntry.frame

NoError == "None"               \* the call returned normally

Pages == 0 .. (VIRTUAL_PAGES - 1)

FrameNos == 0 .. (PHYSICAL_FRAMES - 1)

Offsets == 0 .. (PAGE_SIZE - 1)

\* bytearray(PAGE_SIZE): PAGE_SIZE zero bytes
ZeroPage == [o \in Offsets |-> 0]

\* page numbers handed to the calls: all valid ones, and one on each side
PageArgs == (-1) .. VIRTUAL_PAGES

\* page numbers handed to PageTable.get: the boundary values
GetArgs == {-1, 0, VIRTUAL_PAGES - 1, VIRTUAL_PAGES}

\* values handed to the byte writer (257 exercises the & 0xFF truncation)
WriteValues == {0, 257}

\* offsets handed to the byte writer: the last byte of a page
WriteOffsets == {PAGE_SIZE - 1}

\* frame numbers and offsets handed to read_byte / write_byte: the ends of
\* the valid range, the first values past them, and Python's negative range
IndexArgs(n) == {-n - 1, -n, -1, 0, n - 1, n}

\* number of free_frame calls a behaviour of the pool specification makes
MaxFrees == 4

\* callers of the interleaved specification
Threads == {1, 2}

\* PTEntry defaults, vm.py:21-23
NewPTEntry == [frame |-> None, present |-> FALSE, dirty |-> FALSE]

\* deque(range(n))
RangeSeq(n) == [i \in 1 .. n |-> i - 1]

\* x in deque
InSeq(x, q) == \E i \in 1 .. Len(q) : q[i] = x

\* dict[key] = val
DictSet(d, key, val) == [k \in (DOMAIN d) \cup {key} |-> IF k = key THEN val ELSE d[k]]

VARIABLES
    entries,        \* PageTable.entries : page -> PTEntry
    frames,         \* PhysicalMemory.frames : frame -> bytes
    free_frames,    \* PhysicalMemory.free_frames : deque of frame numbers
    backing_store,  \* VM.backing_store : page -> bytes
    frame_to_page,  \* VM.frame_to_page : dict frame -> page
    fifo_queue,     \* VM.fifo_queue : deque of frame numbers
    last,           \* observation of the most recent call
    loadOrder,      \* history: resident pages, by time of their latest page-in
    hist,           \* history: the accesses since start, while all distinct
    flat,           \* history: last value written to each (page, offset)
    poolHist,       \* history: frames put into the free pool, frames handed out
    threads,        \* callers inside _ensure_in_ram: position and locals
    overlapped      \* history: two callers were inside a call at the same time

vars == <<entries, frames, free_frames, backing_store, frame_to_page,
          fifo_queue, last, loadOrder, hist, flat, poolHist, threads, overlapped>>

\* the variables only the pool and the interleaved specifications use
auxVars == <<poolHist, threads, overlapped>>

\* the program's own state, as one record
Machine ==
    [entries |-> entries, frames |-> frames, free_frames |-> free_frames,
     backing_store |-> backing_store, frame_to_page |-> frame_to_page,
     fifo_queue |-> fifo_queue]

progVars == <<entries, frames, free_frames, backing_store, frame_to_page, fifo_queue>>

\* ------------------------------------------------------------------------
\* PageTable

\* variant: the upper limit compared with > instead of >=
GetInRangeInclusive(page_no) == ~(page_no < 0 \/ page_no > VIRTUAL_PAGES)

\* the range test of PageTable.get, vm.py:44
GetInRange(page_no) == ~(page_no < 0 \/ page_no >= VIRTUAL_PAGES)

\* PageTable.get, vm.py:38-48: the entry, or the exception raised
PageTableGet(ents, page_no) ==
    IF ~GetInRange(page_no) THEN [err |-> "ValueError", entry |-> NewPTEntry]
    ELSE IF page_no \notin DOMAIN ents THEN [err |-> "KeyError", entry |-> NewPTEntry]
    ELSE [err |-> NoError, entry |-> ents[page_no]]

\* ------------------------------------------------------------------------
\* PhysicalMemory

\* variant: the length compared with >= instead of >
has_free_frame_ge(free) == Len(free) >= 0

\* PhysicalMemory.has_free_frame, vm.py:68-70
has_free_frame(free) == Len(free) > 0

\* variant: the head is read but not removed from the pool
alloc_frame_peek(free) ==
    IF Len(free) = 0 THEN [err |-> "RuntimeError", frame |-> None, free |-> free]
    ELSE [err |-> NoError, frame |-> Head(free), free |-> free]

\* variant: pop() instead of popleft()
alloc_frame_pop(free) ==
    IF Len(free) = 0 THEN [err |-> "RuntimeError", frame |-> None, free |-> free]
    ELSE [err |-> NoError, frame |-> free[Len(free)],
          free |-> SubSeq(free, 1, Len(free) - 1)]

\* PhysicalMemory.alloc_frame, vm.py:72-80: popleft, or RuntimeError
alloc_frame(free) ==
    IF Len(free) = 0 THEN [err |-> "RuntimeError", frame |-> None, free |-> free]
    ELSE [err |-> NoError, frame |-> Head(free), free |-> Tail(free)]

\* PhysicalMemory.free_frame, vm.py:82-86
free_frame(free, frame_no) == Append(free, frame_no)

\* Python sequence indexing: i in [-n, n) is accepted, negatives count from the end
PyIndexOk(i, n) == i >= -n /\ i < n

PyIndex(i, n) == IF i < 0 THEN i + n ELSE i

\* PhysicalMemory.read_byte, vm.py:88-92
read_byte(frs, frame_no, offset) ==
    IF ~PyIndexOk(frame_no, PHYSICAL_FRAMES) \/ ~PyIndexOk(offset, PAGE_SIZE)
    THEN [err |-> "IndexError", byte |-> None]
    ELSE [err |-> NoError,
          byte |-> frs[PyIndex(frame_no, PHYSICAL_FRAMES)][PyIndex(offset, PAGE_SIZE)]]

\* PhysicalMemory.write_byte, vm.py:94-99: stores value & 0xFF
write_byte(frs, frame_no, offset, value) ==
    IF ~PyIndexOk(frame_no, PHYSICAL_FRAMES) \/ ~PyIndexOk(offset, PAGE_SIZE)
    THEN [err |-> "IndexError", frames |-> frs]
    ELSE [err |-> NoError,
          frames |-> [frs EXCEPT ![PyIndex(frame_no, PHYSICAL_FRAMES)]
                                  [PyIndex(offset, PAGE_SIZE)] = value % 256]]

\* ------------------------------------------------------------------------
\* VM._ensure_in_ram, vm.py:126-188

\* step 1, vm.py:137: the page number is acceptable
PageNoValid(page_no) == ~(page_no < 0 \/ page_no >= VIRTUAL_PAGES)

\* variant: the frame number tested for truth, so that frame 0 counts as absent
IsHitTruthy(entry) == entry.present /\ entry.frame # None /\ entry.frame # 0

\* step 3, vm.py:146: the fast path applies
IsHit(entry) == entry.present /\ entry.frame # None

\* variant: pop() instead of popleft(), the newest frame is taken
PopRight(q) == [frame |-> q[Len(q)], rest |-> SubSeq(q, 1, Len(q) - 1)]

\* vm.py:155: fifo_queue.popleft(), on a non-empty deque
PopLeft(q) == [frame |-> Head(q), rest |-> Tail(q)]

\* variant: the dirty flag is tested after the entry was reset
NeedsWritebackAfterReset(victim_entry) == FALSE /\ victim_entry.frame # None

\* vm.py:162: the victim must be written back
NeedsWriteback(victim_entry) == victim_entry.dirty /\ victim_entry.frame # None

\* variant: the backing store indexed by the frame number
WritebackByFrame(bs, frs, victim_page, victim_frame) ==
    [bs EXCEPT ![victim_frame] = frs[victim_frame]]

\* vm.py:163-164: backing_store[victim_page][:] = frames[victim_frame]
Writeback(bs, frs, victim_page, victim_frame) ==
    [bs EXCEPT ![victim_page] = frs[victim_frame]]

\* variant: the dirty flag is not cleared
EvictedEntryKeepsDirty(victim_entry) ==
    [victim_entry EXCEPT !.present = FALSE, !.frame = None]

\* variant: the entry stays present in its frame
EvictedEntryStillPresent(victim_entry) ==
    [victim_entry EXCEPT !.dirty = FALSE]

\* vm.py:167-169: the victim entry after eviction
EvictedEntry(victim_entry) ==
    [victim_entry EXCEPT !.present = FALSE, !.frame = None, !.dirty = FALSE]

\* variant: the copy is left out, the frame keeps what it held
PageInSkip(frs, bs, frame, page_no) == frs

\* vm.py:175: frames[frame][:] = backing_store[page_no]
PageIn(frs, bs, frame, page_no) == [frs EXCEPT ![frame] = bs[page_no]]

\* variant: the freshly loaded page is flagged dirty
LoadedEntryDirty(entry, frame) ==
    [entry EXCEPT !.frame = frame, !.present = TRUE, !.dirty = TRUE]

\* vm.py:178-180: the requested page's entry after the load
LoadedEntry(entry, frame) ==
    [entry EXCEPT !.frame = frame, !.present = TRUE, !.dirty = FALSE]

\* variant: appendleft() instead of append()
EnqueueFront(q, frame) == IF InSeq(frame, q) THEN q ELSE <<frame>> \o q

\* variant: the membership test inverted
EnqueueIfQueued(q, frame) == IF InSeq(frame, q) THEN Append(q, frame) ELSE q

\* vm.py:184-185: append unless already queued
Enqueue(q, frame) == IF InSeq(frame, q) THEN q ELSE Append(q, frame)

\* outcome of a call: machine after it, return value, exception, and what
\* the call did (fault taken, page evicted, writeback performed)
Outcome(m, ret, err, fault, victim, wb) ==
    [m |-> m, ret |-> ret, err |-> err, fault |-> fault, victim |-> victim, wb |-> wb]

\* steps 5-8, vm.py:174-188, with the frame obtained in step 4
LoadInto(m, page_no, frame, victim, wb) ==
    LET m1 == [m EXCEPT
                 !.frames = PageIn(m.frames, m.backing_store, frame, page_no),
                 !.entries[page_no] = LoadedEntry(m.entries[page_no], frame),
                 !.frame_to_page = DictSet(m.frame_to_page, frame, page_no),
                 !.fifo_queue = Enqueue(m.fifo_queue, frame)]
    IN Outcome(m1, frame, NoError, TRUE, victim, wb)

\* step 4, else branch, vm.py:153-172: evict by FIFO, then load
EvictAndLoad(m, page_no) ==
    IF Len(m.fifo_queue) = 0
    THEN Outcome(m, None, "IndexError", TRUE, None, FALSE)      \* popleft on empty deque
    ELSE
      LET popped == PopLeft(m.fifo_queue)
          victim_frame == popped.frame
          m1 == [m EXCEPT !.fifo_queue = popped.rest]
      IN IF victim_frame \notin DOMAIN m.frame_to_page
         THEN Outcome(m1, None, "KeyError", TRUE, None, FALSE)  \* vm.py:158
         ELSE
           LET victim_page == m.frame_to_page[victim_frame]
               g == PageTableGet(m.entries, victim_page)
           IN IF g.err # NoError
              THEN Outcome(m1, None, g.err, TRUE, None, FALSE)
              ELSE
                LET wb == NeedsWriteback(g.entry)
                    m2 == [m1 EXCEPT
                             !.backing_store =
                                 IF wb THEN Writeback(m.backing_store, m.frames,
                                                      victim_page, victim_frame)
                                 ELSE m.backing_store,
                             !.entries[victim_page] = EvictedEntry(g.entry)]
                IN LoadInto(m2, page_no, victim_frame, victim_page, wb)

\* the whole of VM._ensure_in_ram
ensure_in_ram(m, page_no) ==
    IF ~PageNoValid(page_no)
    THEN Outcome(m, None, "ValueError", FALSE, None, FALSE)
    ELSE
      LET g == PageTableGet(m.entries, page_no)
      IN IF g.err # NoError
         THEN Outcome(m, None, g.err, FALSE, None, FALSE)
         ELSE IF IsHit(g.entry)
         THEN Outcome(m, g.entry.frame, NoError, FALSE, None, FALSE)
         ELSE IF has_free_frame(m.free_frames)
         THEN LET a == alloc_frame(m.free_frames)
              IN IF a.err # NoError
                 THEN Outcome(m, None, a.err, TRUE, None, FALSE)
                 ELSE LoadInto([m EXCEPT !.free_frames = a.free], page_no,
                               a.frame, None, FALSE)
         ELSE EvictAndLoad(m, page_no)

\* ------------------------------------------------------------------------
\* The byte-level layer on top of the engine (described by spec.md section
\* 4.3, not part of vm.py): ensure_resident, then write_byte, then dirty.

\* pages the byte layer writes to
WritePages == {0, 1}

vm_write_byte(m, page_no, offset, value) ==
    LET r == ensure_in_ram(m, page_no)
    IN IF r.err # NoError THEN r
       ELSE LET w == write_byte(r.m.frames, r.ret, offset, value)
            IN IF w.err # NoError THEN [r EXCEPT !.err = w.err]
               ELSE [r EXCEPT !.m.frames = w.frames,
                              !.m.entries[page_no].dirty = TRUE]

\* a byte read through the same layer: ensure_resident, then read_byte
vm_read_byte(m, page_no, offset) ==
    LET r == ensure_in_ram(m, page_no)
    IN IF r.err # NoError THEN [m |-> r.m, err |-> r.err, byte |-> None]
       ELSE LET b == read_byte(r.m.frames, r.ret, offset)
            IN [m |-> r.m, err |-> b.err, byte |-> b.byte]

\* ------------------------------------------------------------------------
\* History variables

\* what is remembered of a call
Observed(op, page_no, r) ==
    [op |-> op, page |-> page_no, ret |-> r.ret, err |-> r.err,
     fault |-> r.fault, victim |-> r.victim, wb |-> r.wb]

\* resident pages in the order of their latest page-in
LoadOrderAfter(lo, page_no, r) ==
    IF r.fault /\ r.err = NoError
    THEN LET Keep(p) == p # page_no /\ r.m.entries[p].present
         IN Append(SelectSeq(lo, Keep), page_no)
    ELSE lo

HistPages(h) == {h.seq[i].page : i \in 1 .. Len(h.seq)}

NoHist == [ok |-> FALSE, seq |-> <<>>]

\* the accesses since start, kept while they all go to distinct pages and
\* there are at most PHYSICAL_FRAMES + 1 of them
HistAfter(h, page_no, r) ==
    IF r.err # NoError THEN h
    ELSE IF h.ok /\ Len(h.seq) <= PHYSICAL_FRAMES /\ page_no \notin HistPages(h)
    THEN [h EXCEPT !.seq = Append(h.seq, [page |-> page_no, frame |-> r.ret,
                                           fault |-> r.fault, victim |-> r.victim])]
    ELSE NoHist

\* a caller that is not inside a call
IdleThread ==
    [pc |-> "idle", page_no |-> None, frame |-> None,
     victim_frame |-> None, victim_page |-> None]

\* ------------------------------------------------------------------------
\* Initial state: VM.__init__, PageTable.__init__, PhysicalMemory.__init__
Init ==
    /\ entries = [p \in Pages |-> NewPTEntry]               \* vm.py:34-36
    /\ frames = [f \in FrameNos |-> ZeroPage]               \* vm.py:62-64
    /\ free_frames = RangeSeq(PHYSICAL_FRAMES)              \* vm.py:66
    /\ backing_store = [p \in Pages |-> ZeroPage]           \* vm.py:116-118
    /\ frame_to_page = [f \in {} |-> 0]                     \* vm.py:121
    /\ fifo_queue = <<>>                                    \* vm.py:124
    /\ last = [op |-> "init", page |-> None, ret |-> None, err |-> NoError,
               fault |-> FALSE, victim |-> None, wb |-> FALSE]
    /\ loadOrder = <<>>
    /\ hist = [ok |-> TRUE, seq |-> <<>>]
    /\ flat = [p \in Pages |-> ZeroPage]
    /\ poolHist = [inserted |-> RangeSeq(PHYSICAL_FRAMES), handed |-> <<>>]
    /\ threads = [t \in Threads |-> IdleThread]
    /\ overlapped = FALSE

\* the machine becomes m
Becomes(m) ==
    /\ entries' = m.entries
    /\ frames' = m.frames
    /\ free_frames' = m.free_frames
    /\ backing_store' = m.backing_store
    /\ frame_to_page' = m.frame_to_page
    /\ fifo_queue' = m.fifo_queue

\* a call of VM._ensure_in_ram(page_no)
CallEnsure(page_no) ==
    LET r == ensure_in_ram(Machine, page_no)
    IN /\ Becomes(r.m)
       /\ last' = Observed("ensure", page_no, r)
       /\ loadOrder' = LoadOrderAfter(loadOrder, page_no, r)
       /\ hist' = HistAfter(hist, page_no, r)
       /\ UNCHANGED <<flat, auxVars>>

\* a call of PageTable.get(page_no); the caller only looks at the entry
CallGet(page_no) ==
    LET g == PageTableGet(entries, page_no)
    IN /\ last' = [op |-> "get", page |-> page_no,
                   ret |-> IF g.err = NoError THEN g.entry.frame ELSE None,
                   err |-> g.err, fault |-> FALSE, victim |-> None, wb |-> FALSE]
       /\ UNCHANGED <<progVars, loadOrder, hist, flat, auxVars>>

\* a byte write through the layer above
CallWrite(page_no, offset, value) ==
    LET r == vm_write_byte(Machine, page_no, offset, value)
    IN /\ Becomes(r.m)
       /\ last' = Observed("write", page_no, r)
       /\ loadOrder' = LoadOrderAfter(loadOrder, page_no, r)
       /\ hist' = HistAfter(hist, page_no, r)
       /\ flat' = IF r.err = NoError
                  THEN [flat EXCEPT ![page_no][offset] = value % 256]
                  ELSE flat
       /\ UNCHANGED auxVars

Next ==
    \/ \E page_no \in PageArgs : CallEnsure(page_no)
    \/ \E page_no \in GetArgs : CallGet(page_no)
    \/ \E page_no \in WritePages, offset \in WriteOffsets, value \in WriteValues :
          CallWrite(page_no, offset, value)

Spec == Init /\ [][Next]_vars

\* ------------------------------------------------------------------------
\* The allocator used directly: PhysicalMemory.alloc_frame / free_frame

\* what is remembered of a call that is no fault resolution
Plain(op, arg, ret, err) ==
    [op |-> op, page |-> arg, ret |-> ret, err |-> err,
     fault |-> FALSE, victim |-> None, wb |-> FALSE]

\* a call of PhysicalMemory.alloc_frame()
CallAlloc ==
    LET a == alloc_frame(free_frames)
    IN /\ free_frames' = a.free
       /\ last' = Plain("alloc_frame", None, a.frame, a.err)
       /\ poolHist' = IF a.err = NoError
                      THEN [poolHist EXCEPT !.handed = Append(@, a.frame)]
                      ELSE poolHist
       /\ UNCHANGED <<entries, frames, backing_store, frame_to_page, fifo_queue,
                      loadOrder, hist, flat, threads, overlapped>>

\* a call of PhysicalMemory.free_frame(frame_no); nothing is checked
CallFree(frame_no) ==
    /\ Len(poolHist.inserted) < PHYSICAL_FRAMES + MaxFrees
    /\ free_frames' = free_frame(free_frames, frame_no)
    /\ last' = Plain("free_frame", frame_no, None, NoError)
    /\ poolHist' = [poolHist EXCEPT !.inserted = Append(@, frame_no)]
    /\ UNCHANGED <<entries, frames, backing_store, frame_to_page, fifo_queue,
                   loadOrder, hist, flat, threads, overlapped>>

NextPool ==
    \/ CallAlloc
    \/ \E frame_no \in FrameNos : CallFree(frame_no)

SpecPool == Init /\ [][NextPool]_vars

\* ------------------------------------------------------------------------
\* The byte accessors used directly: PhysicalMemory.read_byte / write_byte

\* what is remembered of a byte access
ByteAccess(op, frame_no, offset, ret, err) ==
    [op |-> op, frame_no |-> frame_no, offset |-> offset, ret |-> ret, err |-> err]

\* a call of PhysicalMemory.read_byte(frame_no, offset)
CallReadByte(frame_no, offset) ==
    LET b == read_byte(frames, frame_no, offset)
    IN /\ last' = ByteAccess("read_byte", frame_no, offset, b.byte, b.err)
       /\ UNCHANGED <<progVars, loadOrder, hist, flat, auxVars>>

\* a call of PhysicalMemory.write_byte(frame_no, offset, value)
CallWriteByte(frame_no, offset, value) ==
    LET w == write_byte(frames, frame_no, offset, value)
    IN /\ frames' = w.frames
       /\ last' = ByteAccess("write_byte", frame_no, offset, None, w.err)
       /\ UNCHANGED <<entries, free_frames, backing_store, frame_to_page,
                      fifo_queue, loadOrder, hist, flat, auxVars>>

NextBytes ==
    \/ \E frame_no \in IndexArgs(PHYSICAL_FRAMES), offset \in IndexArgs(PAGE_SIZE) :
          CallReadByte(frame_no, offset)
    \/ \E frame_no \in IndexArgs(PHYSICAL_FRAMES), offset \in IndexArgs(PAGE_SIZE),
          value \in WriteValues :
          CallWriteByte(frame_no, offset, value)

SpecBytes == Init /\ [][NextBytes]_vars

\* ------------------------------------------------------------------------
\* Two callers inside VM._ensure_in_ram with no lock: every statement of the
\* method is a step of its own, and the steps of the callers interleave.

histVars == <<loadOrder, hist, flat, poolHist>>

\* page numbers the two callers ask for: one invalid, and one page more than
\* there are frames, so that both the free pool and the queue are contended
ConcPages == (-1) .. PHYSICAL_FRAMES

\* the callers as they are when thr replaces threads: was there an overlap
OverlapAfter(thr) ==
    overlapped \/ Cardinality({t \in Threads : thr[t].pc # "idle"}) >= 2

\* caller t moves on to position pc with its locals as in rec
Goto(t, rec) ==
    /\ threads' = [threads EXCEPT ![t] = rec]
    /\ overlapped' = OverlapAfter([threads EXCEPT ![t] = rec])
    /\ UNCHANGED last

\* the call of caller t ends: it returns ret or raises err
Finish(t, ret, err, fault) ==
    /\ threads' = [threads EXCEPT ![t] = IdleThread]
    /\ last' = [Plain("ensure", threads[t].page_no, ret, err) EXCEPT !.fault = fault]
    /\ UNCHANGED overlapped

\* vm.py:137-147: validation, lookup and the fast path
T_Begin(t, page_no) ==
    /\ threads[t].pc = "idle"
    /\ LET g == PageTableGet(entries, page_no)
       IN IF ~PageNoValid(page_no) \/ g.err # NoError
          THEN /\ threads' = threads
               /\ last' = Plain("ensure", page_no, None, "ValueError")
               /\ UNCHANGED overlapped
          ELSE IF IsHit(g.entry)
          THEN /\ threads' = threads
               /\ last' = Plain("ensure", page_no, g.entry.frame, NoError)
               /\ UNCHANGED overlapped
          ELSE Goto(t, [IdleThread EXCEPT !.pc = "check_free", !.page_no = page_no])
    /\ UNCHANGED <<progVars, histVars>>

\* vm.py:150: if self.phys_mem.has_free_frame()
T_CheckFree(t) ==
    /\ threads[t].pc = "check_free"
    /\ Goto(t, [threads[t] EXCEPT
                  !.pc = IF has_free_frame(free_frames) THEN "alloc" ELSE "pop"])
    /\ UNCHANGED <<progVars, histVars>>

\* vm.py:152: frame = self.phys_mem.alloc_frame()
T_Alloc(t) ==
    /\ threads[t].pc = "alloc"
    /\ LET a == alloc_frame(free_frames)
       IN /\ free_frames' = a.free
          /\ IF a.err # NoError
             THEN Finish(t, None, a.err, TRUE)
             ELSE Goto(t, [threads[t] EXCEPT !.pc = "page_in", !.frame = a.frame])
    /\ UNCHANGED <<entries, frames, backing_store, frame_to_page, fifo_queue, histVars>>

\* vm.py:155: victim_frame = self.fifo_queue.popleft()
T_Pop(t) ==
    /\ threads[t].pc = "pop"
    /\ IF Len(fifo_queue) = 0
       THEN /\ Finish(t, None, "IndexError", TRUE)
            /\ UNCHANGED fifo_queue
       ELSE LET popped == PopLeft(fifo_queue)
            IN /\ fifo_queue' = popped.rest
               /\ Goto(t, [threads[t] EXCEPT !.pc = "lookup",
                                             !.victim_frame = popped.frame])
    /\ UNCHANGED <<entries, frames, free_frames, backing_store, frame_to_page, histVars>>

\* vm.py:158-159: victim_page = self.frame_to_page[victim_frame]; get(victim_page)
T_Lookup(t) ==
    /\ threads[t].pc = "lookup"
    /\ IF threads[t].victim_frame \notin DOMAIN frame_to_page
       THEN Finish(t, None, "KeyError", TRUE)
       ELSE LET victim_page == frame_to_page[threads[t].victim_frame]
                g == PageTableGet(entries, victim_page)
            IN IF g.err # NoError
               THEN Finish(t, None, g.err, TRUE)
               ELSE Goto(t, [threads[t] EXCEPT !.pc = "writeback",
                                               !.victim_page = victim_page])
    /\ UNCHANGED <<progVars, histVars>>

\* vm.py:162-164: write the victim back if it is dirty
T_Writeback(t) ==
    /\ threads[t].pc = "writeback"
    /\ backing_store' =
          IF NeedsWriteback(entries[threads[t].victim_page])
          THEN Writeback(backing_store, frames, threads[t].victim_page,
                         threads[t].victim_frame)
          ELSE backing_store
    /\ Goto(t, [threads[t] EXCEPT !.pc = "reset"])
    /\ UNCHANGED <<entries, frames, free_frames, frame_to_page, fifo_queue, histVars>>

\* vm.py:167-172: reset the victim entry; frame = victim_frame
T_Reset(t) ==
    /\ threads[t].pc = "reset"
    /\ entries' = [entries EXCEPT ![threads[t].victim_page] = EvictedEntry(@)]
    /\ Goto(t, [threads[t] EXCEPT !.pc = "page_in", !.frame = threads[t].victim_frame])
    /\ UNCHANGED <<frames, free_frames, backing_store, frame_to_page, fifo_queue, histVars>>

\* vm.py:175: load the page into the frame
T_PageIn(t) ==
    /\ threads[t].pc = "page_in"
    /\ frames' = PageIn(frames, backing_store, threads[t].frame, threads[t].page_no)
    /\ Goto(t, [threads[t] EXCEPT !.pc = "update_entry"])
    /\ UNCHANGED <<entries, free_frames, backing_store, frame_to_page, fifo_queue, histVars>>

\* vm.py:178-180: update the entry of the requested page
T_UpdateEntry(t) ==
    /\ threads[t].pc = "update_entry"
    /\ entries' = [entries EXCEPT ![threads[t].page_no] = LoadedEntry(@, threads[t].frame)]
    /\ Goto(t, [threads[t] EXCEPT !.pc = "update_maps"])
    /\ UNCHANGED <<frames, free_frames, backing_store, frame_to_page, fifo_queue, histVars>>

\* vm.py:183-188: reverse map, queue, return
T_UpdateMaps(t) ==
    /\ threads[t].pc = "update_maps"
    /\ frame_to_page' = DictSet(frame_to_page, threads[t].frame, threads[t].page_no)
    /\ fifo_queue' = Enqueue(fifo_queue, threads[t].frame)
    /\ Finish(t, threads[t].frame, NoError, TRUE)
    /\ UNCHANGED <<entries, frames, free_frames, backing_store, histVars>>

NextConc ==
    \E t \in Threads :
       \/ \E page_no \in ConcPages : T_Begin(t, page_no)
       \/ T_CheckFree(t)
       \/ T_Alloc(t)
       \/ T_Pop(t)
       \/ T_Lookup(t)
       \/ T_Writeback(t)
       \/ T_Reset(t)
       \/ T_PageIn(t)
       \/ T_UpdateEntry(t)
       \/ T_UpdateMaps(t)

SpecConc == Init /\ [][NextConc]_vars

\* ------------------------------------------------------------------------
\* Properties

\* the step just taken was a call that runs the fault-resolution algorithm
Resolved(l) == l.op \in {"ensure", "write"}

\* C1: ensure_resident on a present page returns the entry's frame and
\* changes nothing (entries, frames, free pool, reverse map, queue, backing
\* store); a second call right after a successful one returns the same
\* frame with no fault, no eviction and no writeback.
C1_HitHasNoSideEffects ==
    [][\A p \in Pages :
         /\ (entries[p].present /\ last'.op = "ensure" /\ last'.page = p)
              => /\ last'.ret = entries[p].frame
                 /\ last'.err = NoError
                 /\ ~last'.fault /\ last'.victim = None /\ ~last'.wb
                 /\ UNCHANGED progVars
         /\ (last.op = "ensure" /\ last.page = p /\ last.err = NoError
               /\ last'.op = "ensure" /\ last'.page = p)
              => /\ last'.ret = last.ret
                 /\ ~last'.fault /\ last'.victim = None /\ ~last'.wb
                 /\ UNCHANGED progVars]_vars

\* a hit was served for a page that is dirty and not at the tail of the queue
C1_Witness ==
    /\ last.op = "ensure" /\ last.err = NoError /\ ~last.fault
    /\ last.page \in Pages
    /\ entries[last.page].present /\ entries[last.page].dirty
    /\ last.ret = entries[last.page].frame
    /\ Len(fifo_queue) = PHYSICAL_FRAMES
    /\ fifo_queue[1] = last.ret

\* C2: a fault with an empty free pool evicts the resident page whose latest
\* page-in is the oldest, however the pages were accessed since; the frame a
\* fault loads is at the tail of the queue afterwards.
C2_FifoReplacement ==
    [][/\ (Resolved(last') /\ last'.fault /\ free_frames = <<>>)
            => /\ loadOrder # <<>>
               /\ last'.victim = loadOrder[1]
       /\ (Resolved(last') /\ last'.victim # None)
            => /\ free_frames = <<>>
               /\ last'.victim = loadOrder[1]
               /\ last'.ret = entries[last'.victim].frame
       /\ (Resolved(last') /\ last'.fault /\ last'.err = NoError)
            => /\ fifo_queue' # <<>>
               /\ fifo_queue'[Len(fifo_queue')] = last'.ret
               /\ loadOrder'[Len(loadOrder')] = last'.page]_vars

\* an eviction happened although the accesses since start were not all to
\* distinct pages (some page was hit or reloaded in between)
C2_Witness ==
    /\ Resolved(last) /\ last.fault /\ last.victim # None /\ last.err = NoError
    /\ ~hist.ok
    /\ fifo_queue[Len(fifo_queue)] = last.ret

\* C3: from the initial state, PHYSICAL_FRAMES accesses to distinct pages
\* all fault, get pairwise distinct frames and empty the free pool; the next
\* access to another page faults, evicts exactly the first-loaded page and
\* reuses its frame: the first-loaded page is absent, the others present.
C3_Capacity ==
    hist.ok =>
      LET h == hist.seq
          n == Len(h)
      IN /\ \A i \in 1 .. n : h[i].fault
         /\ \A i, j \in 1 .. n :
              (i < j /\ j <= PHYSICAL_FRAMES) => h[i].frame # h[j].frame
         /\ \A i \in 1 .. n : i <= PHYSICAL_FRAMES => h[i].victim = None
         /\ n < PHYSICAL_FRAMES => Len(free_frames) = PHYSICAL_FRAMES - n
         /\ n = PHYSICAL_FRAMES =>
              /\ free_frames = <<>>
              /\ \A i \in 1 .. n : entries[h[i].page].present
         /\ n = PHYSICAL_FRAMES + 1 =>
              /\ free_frames = <<>>
              /\ h[n].victim = h[1].page
              /\ h[n].frame = h[1].frame
              /\ ~entries[h[1].page].present
              /\ \A i \in 2 .. n : entries[h[i].page].present
              /\ Cardinality({q \in Pages : entries[q].present}) = PHYSICAL_FRAMES

\* PHYSICAL_FRAMES + 1 distinct pages have been accessed since start
C3_Witness ==
    /\ hist.ok
    /\ Len(hist.seq) = PHYSICAL_FRAMES + 1
    /\ Cardinality(HistPages(hist)) = PHYSICAL_FRAMES + 1

\* C4: when a dirty resident page is evicted its backing-store slot becomes
\* the full contents its frame had at that moment, and the next fault on a
\* page loads a frame holding the bytes last written to that page.
C4_DirtyWriteback ==
    [][\A p \in Pages :
         /\ (Resolved(last') /\ last'.victim = p /\ entries[p].dirty)
              => /\ last'.wb
                 /\ entries[p].present
                 /\ backing_store'[p] = frames[entries[p].frame]
                 /\ backing_store'[p] = flat[p]
         /\ (last'.op = "ensure" /\ last'.fault /\ last'.err = NoError
               /\ last'.page = p)
              => /\ frames'[last'.ret] = flat[p]
                 /\ frames'[last'.ret] = backing_store[p]]_vars

\* a page that was written and then evicted has been loaded again, with the
\* written byte in its frame and in its backing-store slot
C4_Witness ==
    /\ last.op = "ensure" /\ last.fault /\ last.err = NoError
    /\ last.page \in Pages
    /\ flat[last.page] # ZeroPage
    /\ frames[last.ret] = flat[last.page]
    /\ backing_store[last.page] = flat[last.page]
    /\ ~entries[last.page].dirty

\* C5: a backing-store slot changes only in a step whose fault resolution
\* evicts that page while its entry is dirty; hits, faults served from the
\* free pool, clean evictions and byte writes leave every slot unchanged.
C5_BackingStoreFrame ==
    [][\A p \in Pages :
         /\ backing_store'[p] # backing_store[p]
              => /\ Resolved(last') /\ last'.victim = p /\ last'.wb
                 /\ entries[p].present /\ entries[p].dirty
         /\ (Resolved(last') /\ last'.victim = p /\ ~entries[p].dirty)
              => /\ ~last'.wb
                 /\ backing_store' = backing_store]_vars

\* a page that is never written was evicted without writeback, its slot
\* still zero, while another page's slot already holds written data
C5_Witness ==
    /\ Resolved(last) /\ last.victim # None /\ ~last.wb
    /\ last.victim \notin WritePages
    /\ backing_store[last.victim] = ZeroPage
    /\ \E q \in Pages : backing_store[q] # ZeroPage

\* C6: no call on a valid page number fails with RuntimeError ("No free
\* frames available"), neither the call just made nor any call that could
\* be made next; with the pool empty a fault always evicts.
C6_NoOutOfFrames ==
    /\ last.err # "RuntimeError"
    /\ (Resolved(last) /\ last.page \in Pages) => last.err = NoError
    /\ \A p \in Pages :
         LET r == ensure_in_ram(Machine, p)
         IN /\ r.err # "RuntimeError"
            /\ (r.fault /\ free_frames = <<>>) => r.victim # None
            /\ (r.fault /\ free_frames # <<>>)
                 => r.victim = None /\ r.ret = free_frames[1]

\* a fault arrived with the free pool empty and was resolved by an eviction
C6_Witness ==
    /\ last.op = "ensure" /\ last.page \in Pages
    /\ last.fault /\ last.victim # None /\ last.err = NoError
    /\ free_frames = <<>>
    /\ last.ret \in FrameNos

\* C7: ensure_resident and PageTable.get on a page number outside
\* [0, VIRTUAL_PAGES) raise ValueError and leave the whole machine as it was.
C7_InvalidPageNumber ==
    [][\A page_no \in (PageArgs \cup GetArgs) \ Pages :
         (last'.op \in {"ensure", "get"} /\ last'.page = page_no)
           => /\ last'.err = "ValueError"
              /\ last'.ret = None
              /\ ~last'.fault /\ last'.victim = None /\ ~last'.wb
              /\ UNCHANGED progVars]_vars

\* PageTable.get was refused a page number just past the end, with pages
\* resident and one of them dirty
C7_Witness ==
    /\ last.op = "get" /\ last.page = VIRTUAL_PAGES
    /\ last.err = "ValueError"
    /\ fifo_queue # <<>>
    /\ \E p \in Pages : entries[p].dirty

\* C8: every entry has present = FALSE => frame = None /\ dirty = FALSE,
\* dirty => present, and present => frame in [0, PHYSICAL_FRAMES).
C8_EntryInvariant ==
    \A p \in Pages :
      /\ ~entries[p].present => (entries[p].frame = None /\ ~entries[p].dirty)
      /\ entries[p].dirty => entries[p].present
      /\ entries[p].present => entries[p].frame \in FrameNos

\* a dirty page was evicted (and is absent, clean) while another is dirty
C8_Witness ==
    /\ Resolved(last) /\ last.victim # None /\ last.wb
    /\ ~entries[last.victim].present
    /\ \E p \in Pages : entries[p].present /\ entries[p].dirty

\* number of times x occurs in the deque q
Count(x, q) == Cardinality({i \in 1 .. Len(q) : q[i] = x})

\* present pages held in frame f, according to the page table
Owners(f) == {p \in Pages : entries[p].present /\ entries[p].frame = f}

\* C9: every frame is either in the free pool (once), not a key of the
\* reverse map and owned by no present page; or not in the pool, a key of
\* the reverse map, and owned by exactly the one present page it maps to.
C9_FramePartition ==
    /\ \A i \in 1 .. Len(free_frames) : free_frames[i] \in FrameNos
    /\ DOMAIN frame_to_page \subseteq FrameNos
    /\ \A f \in FrameNos :
         \/ /\ Count(f, free_frames) = 1
            /\ f \notin DOMAIN frame_to_page
            /\ Owners(f) = {}
         \/ /\ Count(f, free_frames) = 0
            /\ f \in DOMAIN frame_to_page
            /\ Owners(f) = {frame_to_page[f]}
    /\ \A p, q \in Pages :
         (p # q /\ entries[p].present /\ entries[q].present)
           => entries[p].frame # entries[q].frame

\* every frame is owned, after an eviction handed a frame to a new page
C9_Witness ==
    /\ Resolved(last) /\ last.victim # None /\ last.err = NoError
    /\ free_frames = <<>>
    /\ DOMAIN frame_to_page = FrameNos
    /\ frame_to_page[last.ret] = last.page
    /\ Owners(last.ret) = {last.page}

\* C10: a frame is in the replacement queue iff it holds a present page,
\* and then exactly once; the queue lists the frames in the order in which
\* their current pages were loaded.
C10_QueueInvariant ==
    /\ \A f \in FrameNos : InSeq(f, fifo_queue) <=> Owners(f) # {}
    /\ \A i \in 1 .. Len(fifo_queue) :
         /\ fifo_queue[i] \in FrameNos
         /\ Count(fifo_queue[i], fifo_queue) = 1
         /\ fifo_queue[i] \in DOMAIN frame_to_page
    /\ [i \in 1 .. Len(fifo_queue) |-> frame_to_page[fifo_queue[i]]] = loadOrder

\* a full queue whose order is no longer the order of allocation
C10_Witness ==
    /\ Len(fifo_queue) = PHYSICAL_FRAMES
    /\ fifo_queue # RangeSeq(PHYSICAL_FRAMES)
    /\ Len(loadOrder) = PHYSICAL_FRAMES
    /\ ~hist.ok

\* the frame of page p differs from the page's backing-store slot
Differs(p) == frames[entries[p].frame] # backing_store[p]

\* C11 (as stated): for every present page, dirty is TRUE if and only if
\* the contents of its frame differ from its backing-store slot.
C11_DirtyIffDiffers ==
    \A p \in Pages : entries[p].present => (entries[p].dirty <=> Differs(p))

\* C11 (amended): for every present page, if the contents of its frame
\* differ from its backing-store slot then dirty is TRUE; a page that was
\* written is dirty even when the write left the contents equal to the slot.
C11_DiffersImpliesDirty ==
    \A p \in Pages : (entries[p].present /\ Differs(p)) => entries[p].dirty

\* one present page is dirty and differs from its slot, another present
\* page is clean and equal to its slot, after an eviction
C11_Witness ==
    /\ \E p \in Pages : entries[p].present /\ entries[p].dirty /\ Differs(p)
    /\ \E p \in Pages : entries[p].present /\ ~entries[p].dirty /\ ~Differs(p)
    /\ \E p \in Pages : backing_store[p] # ZeroPage

\* residency state of page p under the page table ents
Class(ents, p) ==
    IF ~ents[p].present THEN "Absent"
    ELSE IF ents[p].dirty THEN "ResidentDirty" ELSE "ResidentClean"

\* the page table between the two halves of a byte write (after its
\* ensure_resident, before the byte and the dirty flag are set); for every
\* other call, the page table after the call
MidEntries ==
    IF last'.op = "write" THEN ensure_in_ram(Machine, last'.page).m.entries
    ELSE entries'

\* the three transitions of the state machine as stated
ChainMove(a, b) ==
    \/ a = b
    \/ a = "Absent" /\ b = "ResidentClean"
    \/ a = "ResidentClean" /\ b = "ResidentDirty"
    \/ a = "ResidentDirty" /\ b = "Absent"

\* the same, and the eviction of a clean page
PageMove(a, b) == ChainMove(a, b) \/ (a = "ResidentClean" /\ b = "Absent")

\* C12 (as stated): the only state changes of a page are Absent ->
\* Resident-Clean, Resident-Clean -> Resident-Dirty and Resident-Dirty ->
\* Absent.
C12_ThreeTransitionsOnly ==
    [][\A p \in Pages :
         /\ ChainMove(Class(entries, p), Class(MidEntries, p))
         /\ ChainMove(Class(MidEntries, p), Class(entries', p))]_vars

\* C12 (amended): the only state changes of a page are Absent ->
\* Resident-Clean (a fault on that page), Resident-Clean -> Resident-Dirty
\* (a byte write to that page), Resident-Dirty -> Absent and Resident-Clean
\* -> Absent (eviction of that page, dirty or clean).
C12_PageStateMachine ==
    [][\A p \in Pages :
         LET a == Class(entries, p)
             m == Class(MidEntries, p)
             b == Class(entries', p)
         IN /\ PageMove(a, m) /\ PageMove(m, b)
            /\ (a = "Absent" /\ m # "Absent")
                 => /\ m = "ResidentClean"
                    /\ Resolved(last') /\ last'.page = p /\ last'.fault
            /\ (a # "Absent" /\ m = "Absent")
                 => Resolved(last') /\ last'.victim = p
            /\ a # m => m # "ResidentDirty"
            /\ m # b
                 => /\ m = "ResidentClean" /\ b = "ResidentDirty"
                    /\ last'.op = "write" /\ last'.page = p]_vars

\* a clean page was just evicted by a byte write that faulted, so the
\* written page went Absent -> Resident-Clean -> Resident-Dirty in the call,
\* and a dirty page had been evicted earlier
C12_Witness ==
    /\ last.op = "write" /\ last.fault /\ last.err = NoError
    /\ last.victim # None /\ ~last.wb
    /\ Class(entries, last.victim) = "Absent"
    /\ Class(entries, last.page) = "ResidentDirty"
    /\ \E q \in Pages : backing_store[q] # ZeroPage

\* C13: a page that is present before and after a step has the same frame
\* before and after; it can appear in another frame only after having been
\* absent.
C13_NoFrameChangeWhileResident ==
    [][\A p \in Pages :
         /\ (entries[p].present /\ MidEntries[p].present)
              => MidEntries[p].frame = entries[p].frame
         /\ (MidEntries[p].present /\ entries'[p].present)
              => entries'[p].frame = MidEntries[p].frame]_vars

\* a page sits in a frame other than the one it was first given: it was
\* evicted and loaded again, and has just been hit
C13_Witness ==
    /\ last.op = "ensure" /\ ~last.fault /\ last.err = NoError
    /\ last.page \in Pages
    /\ entries[last.page].present
    /\ ~hist.ok
    /\ last.page < PHYSICAL_FRAMES
    /\ entries[last.page].frame # last.page

\* C16: when ensure_resident(p) faults and returns f, then right after it
\* the entry of p is (f, present, clean), frame f equals p's backing-store
\* slot byte for byte, frame_to_page[f] = p and f is the last element of the
\* queue; a page never written gets an all-zero frame, whatever the frame
\* held before.
C16_FaultPostState ==
    [][\A p \in Pages :
         /\ (last'.op = "ensure" /\ last'.page = p /\ last'.fault)
              => /\ last'.err = NoError
                 /\ last'.ret \in FrameNos
                 /\ entries'[p] = [frame |-> last'.ret, present |-> TRUE,
                                   dirty |-> FALSE]
                 /\ \A o \in Offsets :
                      frames'[last'.ret][o] = backing_store'[p][o]
                 /\ backing_store'[p] = backing_store[p]
                 /\ last'.ret \in DOMAIN frame_to_page'
                 /\ frame_to_page'[last'.ret] = p
                 /\ fifo_queue' # <<>>
                 /\ fifo_queue'[Len(fifo_queue')] = last'.ret
                 /\ flat[p] = ZeroPage => frames'[last'.ret] = ZeroPage
         /\ (last'.op = "write" /\ last'.page = p /\ last'.fault)
              => /\ last'.err = NoError
                 /\ MidEntries[p] = [frame |-> last'.ret, present |-> TRUE,
                                     dirty |-> FALSE]
                 /\ frame_to_page'[last'.ret] = p
                 /\ fifo_queue'[Len(fifo_queue')] = last'.ret]_vars

\* a page that is never written was loaded into a frame that held a dirty
\* page's written bytes until this call, and the frame is all zero now
C16_Witness ==
    /\ last.op = "ensure" /\ last.fault /\ last.err = NoError
    /\ last.page \in Pages \ WritePages
    /\ last.victim \in WritePages /\ last.wb
    /\ backing_store[last.victim] # ZeroPage
    /\ frames[last.ret] = ZeroPage
    /\ entries[last.page] = [frame |-> last.ret, present |-> TRUE, dirty |-> FALSE]

\* C17: a fault on page p changes the entry of p and of at most one other
\* page, the victim, which becomes absent; every other entry is unchanged by
\* any call; a page becomes present only in a call on that page, so a page
\* not accessed so far is absent.
C17_EntriesFrame ==
    /\ [](hist.ok => \A q \in Pages \ HistPages(hist) : entries[q] = NewPTEntry)
    /\ [][\A q \in Pages :
            /\ entries'[q] # entries[q]
                 => /\ Resolved(last')
                    /\ last'.page = q \/ (last'.fault /\ last'.victim = q)
            /\ (Resolved(last') /\ last'.victim = q)
                 => /\ last'.fault /\ q # last'.page
                    /\ entries[q].present
                    /\ entries'[q] = NewPTEntry
            /\ (~entries[q].present /\ entries'[q].present)
                 => Resolved(last') /\ last'.page = q /\ last'.fault
            /\ (Resolved(last') /\ ~last'.fault /\ last'.op = "ensure")
                 => entries' = entries]_vars

\* after PHYSICAL_FRAMES + 1 accesses and one eviction of a dirty page, a
\* page that was never accessed still has its initial entry
C17_Witness ==
    /\ hist.ok /\ Len(hist.seq) = PHYSICAL_FRAMES + 1
    /\ Pages \ HistPages(hist) # {}
    /\ \A q \in Pages \ HistPages(hist) : entries[q] = NewPTEntry
    /\ Resolved(last) /\ last.victim # None /\ last.wb
    /\ entries[last.victim] = NewPTEntry

\* the bytes of page p as the program sees them in machine m
LogicalOf(m, p) ==
    IF m.entries[p].present THEN m.frames[m.entries[p].frame]
    ELSE m.backing_store[p]

\* C18: the logical content of every page (its frame when present, its
\* slot otherwise) is what was last written to it, 0 where nothing was; no
\* ensure_resident call changes it, and a read of (page, offset) returns it.
C18_PagingTransparent ==
    /\ \A p \in Pages : LogicalOf(Machine, p) = flat[p]
    /\ \A p \in Pages :
         LET r == ensure_in_ram(Machine, p)
         IN /\ r.err = NoError
            /\ \A q \in Pages : LogicalOf(r.m, q) = LogicalOf(Machine, q)
    /\ \A p \in Pages, o \in Offsets :
         LET b == vm_read_byte(Machine, p, o)
         IN b.err = NoError /\ b.byte = flat[p][o]

\* written bytes live in three places at once: in the slot of an evicted
\* page, in the frame of a dirty page whose slot is still zero, and a clean
\* page was evicted as well
C18_Witness ==
    /\ \E p \in Pages : ~entries[p].present /\ backing_store[p] # ZeroPage
    /\ \E p \in Pages : /\ entries[p].present /\ entries[p].dirty
                        /\ frames[entries[p].frame] # ZeroPage
                        /\ backing_store[p] = ZeroPage
    /\ Resolved(last) /\ last.victim # None /\ ~last.wb

\* C19: the eviction path cannot fail: with the free pool empty the queue
\* holds PHYSICAL_FRAMES distinct frames, its head is a key of
\* frame_to_page, and the page it maps to is present in that very frame; no
\* call ends in IndexError or KeyError.
C19_EvictionNeverFails ==
    /\ last.err \notin {"IndexError", "KeyError"}
    /\ free_frames = <<>> =>
         /\ Len(fifo_queue) = PHYSICAL_FRAMES
         /\ Cardinality({fifo_queue[i] : i \in 1 .. Len(fifo_queue)}) = PHYSICAL_FRAMES
         /\ fifo_queue[1] \in DOMAIN frame_to_page
         /\ frame_to_page[fifo_queue[1]] \in Pages
         /\ entries[frame_to_page[fifo_queue[1]]].present
         /\ entries[frame_to_page[fifo_queue[1]]].frame = fifo_queue[1]
         /\ \A p \in Pages :
              LET r == ensure_in_ram(Machine, p)
              IN /\ r.err = NoError
                 /\ r.fault => r.victim = frame_to_page[fifo_queue[1]]

\* the pool is empty, the page at the head of the queue is dirty and the
\* last call was a hit on it: the next fault has to evict it
C19_Witness ==
    /\ free_frames = <<>>
    /\ Len(fifo_queue) = PHYSICAL_FRAMES
    /\ entries[frame_to_page[fifo_queue[1]]].dirty
    /\ last.op = "ensure" /\ ~last.fault /\ last.err = NoError
    /\ last.page = frame_to_page[fifo_queue[1]]

\* C14: alloc_frame removes and returns the head of the free pool, so the
\* frames are handed out in the order in which they entered the pool
\* (0 .. PHYSICAL_FRAMES-1, then the free_frame calls in order); on an empty
\* pool it raises RuntimeError and changes nothing.
C14_AllocFifo ==
    /\ [](/\ Len(poolHist.handed) <= Len(poolHist.inserted)
          /\ poolHist.handed = SubSeq(poolHist.inserted, 1, Len(poolHist.handed))
          /\ free_frames = SubSeq(poolHist.inserted, Len(poolHist.handed) + 1,
                                  Len(poolHist.inserted)))
    /\ [][/\ (last'.op = "alloc_frame" /\ free_frames # <<>>)
               => /\ last'.err = NoError
                  /\ last'.ret = free_frames[1]
                  /\ free_frames' = Tail(free_frames)
          /\ (last'.op = "alloc_frame" /\ free_frames = <<>>)
               => /\ last'.err = "RuntimeError"
                  /\ last'.ret = None
                  /\ UNCHANGED <<progVars, poolHist>>
          /\ last'.op = "free_frame"
               => free_frames' = Append(free_frames, last'.page)]_vars

\* the initial frames and two freed ones have all been handed out, the
\* freed ones in the order 1, 0, and one more frame waits in the pool
C14_Witness ==
    /\ last.op = "alloc_frame" /\ last.err = NoError
    /\ Len(poolHist.handed) = PHYSICAL_FRAMES + 2
    /\ poolHist.handed[PHYSICAL_FRAMES + 1] = 1
    /\ poolHist.handed[PHYSICAL_FRAMES + 2] = 0
    /\ last.ret = 0
    /\ Len(free_frames) = 1

\* C15 (as stated): read_byte and write_byte with a frame number outside
\* [0, PHYSICAL_FRAMES) or an offset outside [0, PAGE_SIZE), negative values
\* included, raise IndexError, return no byte and modify no frame.
C15_IndexOutOfRange ==
    [][(/\ last'.op \in {"read_byte", "write_byte"}
        /\ last'.frame_no \notin FrameNos \/ last'.offset \notin Offsets)
         => /\ last'.err = "IndexError"
            /\ last'.ret = None
            /\ frames' = frames]_vars


\* no caller is inside _ensure_in_ram
Quiescent == \A t \in Threads : threads[t].pc = "idle"

\* a single-caller guarantee is broken: a call ended in OutOfFrames, in an
\* empty-queue failure or in a missing reverse-map key, or, with no call in
\* progress, the frame-ownership or the queue invariant does not hold
GuaranteeBroken ==
    \/ last.err \in {"RuntimeError", "IndexError", "KeyError"}
    \/ /\ Quiescent
       /\ \/ ~C9_FramePartition
          \/ \E f \in FrameNos : ~(InSeq(f, fifo_queue) <=> Owners(f) # {})
          \/ \E i \in 1 .. Len(fifo_queue) : Count(fifo_queue[i], fifo_queue) # 1

\* C20: as long as every call of ensure_resident runs to its end before the
\* next one starts, no state breaks a single-caller guarantee; a state that
\* breaks one is reached only after the steps of two calls were interleaved
\* (and such a state is reachable).
C20_UnserializedCallersBreak ==
    GuaranteeBroken => overlapped

\* two callers asked for different non-resident pages, both saw the last
\* free frame, one took it and the other one's call ended in OutOfFrames
C20_Witness ==
    /\ overlapped
    /\ last.op = "ensure" /\ last.err = "RuntimeError" /\ last.page \in Pages
    /\ ~entries[last.page].present
    /\ \E t \in Threads :
         /\ threads[t].pc \in {"page_in", "update_entry", "update_maps"}
         /\ threads[t].page_no # last.page
         /\ threads[t].victim_frame = None
         /\ threads[t].frame \in FrameNos

====
